---- MODULE Spec2Model ----
(***************************************************************************)
(* Model of Camera (Camera_cv.py): the capture loop, the display slot, the *)
(* queue of frames to record and the recording session, with the four      *)
(* execution contexts that touch them:                                     *)
(*   producer  start_capture / grab_frame                                  *)
(*   display   get_dispframe                                               *)
(*   control   new_recording / start_saving / stop_saving / stop_capture   *)
(*   consumer  one per VideoRecording: its write slot, run on the          *)
(*             recording's own QThread for each queued sig_new_frame       *)
(*                                                                         *)
(* A section of code between mutex.lock() and mutex.unlock() is one step,  *)
(* enabled when no context is stuck holding the mutex.  Every access to    *)
(* shared state outside the mutex is a step of its own.                    *)
(*                                                                         *)
(* Time is counted in whole seconds (the resolution of the overlay text).  *)
(* A frame is a numpy array: it is modelled as an object id, and content   *)
(* maps each id to what has been drawn into that array (cv2.putText draws  *)
(* in place).  Array 0 is the np.zeros array made by __init__.             *)
(***************************************************************************)
EXTENDS Integers, Sequences, FiniteSets, TLC

\* ---------------------------------------------------------------- bounds
MaxGrabs == 2       \* iterations of the capture loop that are explored
MaxSessions == 1    \* calls of new_recording that are explored
MaxPeriod == 1      \* seconds between two camera reads: 0..MaxPeriod

\* ----------------------------------------------------- program constants
WindowMax == 100        \* len(self.frame_dts) > 100
StallInit == -1         \* double_counter = -1
StallThreshold == 10    \* double_counter == 10
triggered_frames == 0   \* triggered_frames = 0
triggered == FALSE      \* self.triggered = False

Recorders == 1..MaxSessions
Takers == {"disp", "ctl"}
NoMutex == "free"

\* None, for a dispframe and for a recframe
NoDisp == [frame |-> -1, dtime |-> -1, fr |-> <<0, 1>>]
NoRec == [frame |-> -1, dtime |-> -1]

ErrOpen == "Video-recording could not be started."
ErrStall == "Frames cannot be saved."

VARIABLES
  mutex,          \* "free", or the context that raised while holding it
  continuous,     \* self.continuous: "unset" (no such attribute yet), "True" or "False"
  saving,         \* self.saving
  frame_dts,      \* self.frame_dts: the window of capture times
  recframes,      \* self.recframes
  dispframe,      \* self.dispframe: NoDisp or (frame, dtime, fr)
  empty_frame,    \* self.empty_frame: the array used when conversion fails
  content,        \* content[a]: the overlay texts drawn into array a
  now,            \* the clock, datetime.now(), in seconds
  period,         \* seconds that pass between two camera reads
  nframes,        \* arrays made by cvtColor so far
  grabs,          \* iterations of the capture loop so far
  ppc, pframe, pdtime, pfr,      \* producer: position and grab_frame's locals
  taking, taken,                 \* get_dispframe per caller: past line 121?, its local dispframe (NoDisp outside a call)
  slotEvent,      \* what happened last to dispframe: "init", "publish" or "take"
  eventAtRead,    \* per caller: slotEvent when it read dispframe ("init" outside a call)
  kpc,            \* control: position
  recording,      \* self.recording: 0 (None) or a recorder
  recordingThread,\* self.recordingThread: 0 (unset/None) or the thread of a recorder
  rstate,         \* per recorder: "unborn", "failed", "open", "released"
  connected,      \* recorders whose write is connected to sig_new_frame
  running,        \* recorders whose QThread runs its event loop
  pending,        \* per recorder: queued sig_new_frame deliveries
  cpc, hand,      \* consumer per recorder: position, frame returned by get_recframe
  written,        \* per recorder: the frames written; write_count is its length
  last, double_counter, stalledPolls,  \* stop_saving's locals; the msleep calls made after finding the count unchanged
  nsessions,      \* calls of new_recording so far
  errors,         \* messages emitted on sig_raise_error
  summaries,      \* <<written, expected>> emitted on sig_set_timestamp
  enqueued,       \* every recframe appended to recframes, in order
  consumed,       \* every recframe returned by get_recframe, in order
  stalled,        \* the drain of the running stop_saving broke on a stall (FALSE outside a call)
  nonEmptyAtStop, \* recframes was not empty when the running stop_saving cleared saving
  acted,          \* some consumer dequeued or wrote since then
  enqFor,         \* per recorder: frames appended while it was self.recording
  enqSession      \* per frame of enqueued: self.recording when it was appended (0: None)

vars == <<mutex, continuous, saving, frame_dts, recframes, dispframe, empty_frame,
          content, now, period, nframes, grabs, ppc, pframe, pdtime, pfr, taking, taken,
          kpc, recording, recordingThread, rstate, connected, running, pending,
          cpc, hand, written, last, double_counter, stalledPolls, nsessions, errors,
          summaries, enqueued, consumed, stalled, nonEmptyAtStop, acted,
          slotEvent, eventAtRead, enqFor, enqSession>>

prodVars == <<frame_dts, empty_frame, now, period, nframes, grabs, ppc, pframe, pdtime, pfr>>
takeVars == <<taking, taken, eventAtRead>>
ctlVars == <<kpc, recording, recordingThread, last, double_counter, stalledPolls, nsessions,
             stalled, nonEmptyAtStop>>
recVars == <<rstate, connected, running>>
consVars == <<cpc, hand, written, consumed, acted>>
outVars == <<errors, summaries>>

Init ==
  /\ mutex = NoMutex
  /\ continuous = "unset"
  /\ saving = FALSE
  /\ frame_dts = <<>>
  /\ recframes = <<>>
  /\ dispframe = NoDisp
  /\ empty_frame = 0
  /\ content = [a \in 0..MaxGrabs |-> {}]
  /\ now = 0
  /\ period \in 0..MaxPeriod
  /\ nframes = 0
  /\ grabs = 0
  /\ ppc = "idle" /\ pframe = 0 /\ pdtime = 0 /\ pfr = <<0, 1>>
  /\ taking = [t \in Takers |-> FALSE]
  /\ taken = [t \in Takers |-> NoDisp]
  /\ kpc = "idle"
  /\ recording = 0
  /\ recordingThread = 0
  /\ rstate = [r \in Recorders |-> "unborn"]
  /\ connected = {}
  /\ running = {}
  /\ pending = [r \in Recorders |-> 0]
  /\ cpc = [r \in Recorders |-> "idle"]
  /\ hand = [r \in Recorders |-> NoRec]
  /\ written = [r \in Recorders |-> <<>>]
  /\ last = 0 /\ double_counter = StallInit /\ stalledPolls = 0
  /\ nsessions = 0
  /\ errors = <<>>
  /\ summaries = <<>>
  /\ enqueued = <<>>
  /\ consumed = <<>>
  /\ stalled = FALSE
  /\ nonEmptyAtStop = FALSE
  /\ acted = FALSE
  /\ slotEvent = "init"
  /\ eventAtRead = [t \in Takers |-> "init"]
  /\ enqFor = [r \in Recorders |-> 0]
  /\ enqSession = <<>>

\* ------------------------------------------------------------ pure parts

\* frame_dts.append(dtime); if len(frame_dts) > 100: frame_dts.popleft()
RecordSample(w, d) ==
  LET a == Append(w, d) IN IF Len(a) > WindowMax THEN Tail(a) ELSE a

\* The rate fr of grab_frame as the fraction <<numerator, denominator>>:
\* len(frame_dts) / dur when there is more than one sample and dur > 0, else 0.
Rate(w) ==
  IF Len(w) > 1
    THEN LET dur == w[Len(w)] - w[1]
         IN IF dur > 0 THEN <<Len(w), dur>> ELSE <<0, 1>>
    ELSE <<0, 1>>

\* '{:.10f}'.format(date2num(dtime)): the day number of second d, rounded to
\* 10 decimals, as the integer count of 1e-10 days (1e10 / 86400 = 3125000 / 27).
FormatTimestamp(d) == (2 * 3125000 * d + 27) \div (2 * 27)

\* cv2.putText(frm, text, ...): draws the text of second d into array a, in place.
write_to_frame(c, a, d) == [c EXCEPT ![a] = @ \cup {d}]

\* self.recframes.append(x)
QueueAppendLeft(q, x) == <<x>> \o q
QueueAppend(q, x) == Append(q, x)

\* self.sig_new_frame.emit(): one queued call of write per connected recorder
Emitted(p) == [r \in Recorders |-> IF r \in connected THEN p[r] + 1 ELSE p[r]]

\* What a reader of the slot or of the queue sees: the pixels with the data.
SlotValue ==
  IF dispframe = NoDisp THEN <<>>
  ELSE <<content[dispframe.frame], dispframe.dtime, dispframe.fr>>
QueueValue ==
  [i \in 1..Len(recframes) |-> <<content[recframes[i].frame], recframes[i].dtime>>]

\* -------------------------------------------------------------- producer

\* start_capture is invoked: the capture thread enters the function
StartCaptureCall ==
  /\ ppc = "idle"
  /\ ppc' = "called"
  /\ UNCHANGED <<mutex, continuous, saving, frame_dts, recframes, dispframe, empty_frame,
                 content, now, period, nframes, grabs, pframe, pdtime, pfr, slotEvent, pending,
                 enqueued, enqFor, enqSession>>
  /\ UNCHANGED <<takeVars, ctlVars, recVars, consVars, outVars>>

\* start_capture, line 252: self.continuous = True (no mutex held)
StartCapture ==
  /\ ppc = "called"
  /\ continuous' = "True"
  /\ ppc' = "loop"
  /\ UNCHANGED <<mutex, saving, frame_dts, recframes, dispframe, empty_frame, content,
                 now, period, nframes, grabs, pframe, pdtime, pfr, slotEvent, pending, enqueued,
                 enqFor, enqSession>>
  /\ UNCHANGED <<takeVars, ctlVars, recVars, consVars, outVars>>

\* while self.is_recording(): the test of one iteration
LoopTest ==
  /\ ppc = "loop"
  /\ mutex = NoMutex
  /\ continuous # "unset"
  /\ continuous = "True" => grabs < MaxGrabs
  /\ ppc' = IF continuous = "True" THEN "read" ELSE "done"
  /\ UNCHANGED <<mutex, continuous, saving, frame_dts, recframes, dispframe, empty_frame,
                 content, now, period, nframes, grabs, pframe, pdtime, pfr, slotEvent, pending,
                 enqueued, enqFor, enqSession>>
  /\ UNCHANGED <<takeVars, ctlVars, recVars, consVars, outVars>>

\* grab_frame up to "if not flag: return None": the camera read (flag), the
\* rate, the conversion with its fallback to empty_frame, and the overlay.
\* The camera returns no array when flag is False, so cvtColor raises exactly
\* then and the except branch takes self.empty_frame itself, not a copy.
GrabRead ==
  /\ ppc = "read"
  /\ \E flag \in BOOLEAN :
       LET d == now + period
           w == RecordSample(frame_dts, d)
           a == IF flag THEN nframes + 1 ELSE empty_frame
       IN /\ now' = d
          /\ frame_dts' = w
          /\ pfr' = Rate(w)
          /\ pdtime' = d
          /\ pframe' = a
          /\ nframes' = IF flag THEN a ELSE nframes
          /\ empty_frame' = a
          /\ content' = write_to_frame(content, a, d)
          /\ ppc' = IF flag THEN "publish" ELSE "loop"
  /\ grabs' = grabs + 1
  /\ period' = period
  /\ UNCHANGED <<mutex, continuous, saving, recframes, dispframe, slotEvent, pending,
                 enqueued, enqFor, enqSession>>
  /\ UNCHANGED <<takeVars, ctlVars, recVars, consVars, outVars>>

\* self.dispframe = (frame, dtime, fr), under the mutex
Publish ==
  /\ ppc = "publish"
  /\ mutex = NoMutex
  /\ dispframe' = [frame |-> pframe, dtime |-> pdtime, fr |-> pfr]
  /\ slotEvent' = "publish"
  /\ ppc' = "is_saving"
  /\ UNCHANGED <<mutex, continuous, saving, frame_dts, recframes, empty_frame, content,
                 now, period, nframes, grabs, pframe, pdtime, pfr, pending, enqueued, enqFor, enqSession>>
  /\ UNCHANGED <<takeVars, ctlVars, recVars, consVars, outVars>>

\* if self.is_saving(): the flag is read under the mutex, which is then released
IsSaving ==
  /\ ppc = "is_saving"
  /\ mutex = NoMutex
  /\ ppc' = IF saving THEN "append" ELSE "loop"
  /\ UNCHANGED <<mutex, continuous, saving, frame_dts, recframes, dispframe, empty_frame,
                 content, now, period, nframes, grabs, pframe, pdtime, pfr, slotEvent, pending,
                 enqueued, enqFor, enqSession>>
  /\ UNCHANGED <<takeVars, ctlVars, recVars, consVars, outVars>>

\* self.recframes.append((frame, dtime)), under the mutex taken anew
AppendFrame ==
  /\ ppc = "append"
  /\ mutex = NoMutex
  /\ LET x == [frame |-> pframe, dtime |-> FormatTimestamp(pdtime)]
     IN /\ recframes' = QueueAppend(recframes, x)
        /\ enqueued' = Append(enqueued, x)
  /\ enqFor' = IF recording = 0 THEN enqFor ELSE [enqFor EXCEPT ![recording] = @ + 1]
  /\ enqSession' = Append(enqSession, recording)
  /\ ppc' = "emit"
  /\ UNCHANGED <<mutex, continuous, saving, frame_dts, dispframe, empty_frame, content,
                 now, period, nframes, grabs, pframe, pdtime, pfr, slotEvent, pending>>
  /\ UNCHANGED <<takeVars, ctlVars, recVars, consVars, outVars>>

\* self.sig_new_frame.emit()
EmitNewFrame ==
  /\ ppc = "emit"
  /\ pending' = Emitted(pending)
  /\ ppc' = "loop"
  /\ UNCHANGED <<mutex, continuous, saving, frame_dts, recframes, dispframe, empty_frame,
                 content, now, period, nframes, grabs, pframe, pdtime, pfr, slotEvent, enqueued,
                 enqFor, enqSession>>
  /\ UNCHANGED <<takeVars, ctlVars, recVars, consVars, outVars>>

Producer == StartCaptureCall \/ StartCapture \/ LoopTest \/ GrabRead \/ Publish \/ IsSaving
              \/ AppendFrame \/ EmitNewFrame

\* -------------------------------------------------------- get_dispframe

\* self.dispframe = None
SlotKept == dispframe
SlotAfterTake == NoDisp

\* get_dispframe, lines 119-121: dispframe = self.dispframe, under the mutex
TakeRead(t) ==
  /\ ~taking[t]
  /\ mutex = NoMutex
  /\ taken' = [taken EXCEPT ![t] = dispframe]
  /\ taking' = [taking EXCEPT ![t] = TRUE]
  /\ eventAtRead' = [eventAtRead EXCEPT ![t] = slotEvent]

\* get_dispframe, lines 122-123: self.dispframe = None after the unlock, return
TakeClear(t) ==
  /\ taking[t]
  /\ dispframe' = SlotAfterTake
  /\ taking' = [taking EXCEPT ![t] = FALSE]
  /\ slotEvent' = "take"
  /\ taken' = [taken EXCEPT ![t] = NoDisp]
  /\ eventAtRead' = [eventAtRead EXCEPT ![t] = "init"]

\* the display consumer calls get_dispframe
DisplayRead ==
  /\ TakeRead("disp")
  /\ UNCHANGED <<mutex, continuous, saving, recframes, dispframe, content, slotEvent,
                 pending, enqueued, enqFor, enqSession>>
  /\ UNCHANGED <<prodVars, ctlVars, recVars, consVars, outVars>>

DisplayClear ==
  /\ TakeClear("disp")
  /\ UNCHANGED <<mutex, continuous, saving, recframes, content, pending, enqueued,
                 enqFor, enqSession>>
  /\ UNCHANGED <<prodVars, ctlVars, recVars, consVars, outVars>>

Display == DisplayRead \/ DisplayClear

\* --------------------------------------------------------------- control

\* new_recording: "if not isOpened(): ... return False", else go on to connect
AlwaysConnect(ok) == "nr_connect"
AfterOpen(ok) == IF ok THEN "nr_connect" ELSE "idle"

\* new_recording, line 213: get_dispframe() for the rate (self.triggered is False)
NewRecordingRead ==
  /\ kpc = "idle"
  /\ ~triggered
  /\ nsessions < MaxSessions
  /\ TakeRead("ctl")
  /\ kpc' = "nr_clear"
  /\ UNCHANGED <<mutex, continuous, saving, recframes, dispframe, content, slotEvent,
                 pending, enqueued, enqFor, enqSession>>
  /\ UNCHANGED <<recording, recordingThread, last, double_counter, stalledPolls, nsessions,
                 stalled, nonEmptyAtStop>>
  /\ UNCHANGED <<prodVars, recVars, consVars, outVars>>

NewRecordingClear ==
  /\ kpc = "nr_clear"
  /\ TakeClear("ctl")
  /\ kpc' = "nr_open"
  /\ UNCHANGED <<mutex, continuous, saving, recframes, content, pending, enqueued,
                 enqFor, enqSession>>
  /\ UNCHANGED <<recording, recordingThread, last, double_counter, stalledPolls, nsessions,
                 stalled, nonEmptyAtStop>>
  /\ UNCHANGED <<prodVars, recVars, consVars, outVars>>

\* new_recording, lines 218-226: self.recording = VideoRecording(...), which
\* opens or not; if not, the error is emitted and the call returns
NewRecordingOpen ==
  /\ kpc = "nr_open"
  /\ \E ok \in BOOLEAN :
       LET r == nsessions + 1
       IN /\ nsessions' = r
          /\ recording' = r
          /\ rstate' = [rstate EXCEPT ![r] = IF ok THEN "open" ELSE "failed"]
          /\ errors' = IF ok THEN errors ELSE Append(errors, ErrOpen)
          /\ kpc' = AfterOpen(ok)
  /\ UNCHANGED <<mutex, continuous, saving, recframes, dispframe, content, slotEvent,
                 pending, enqueued, enqFor, enqSession, summaries, connected, running>>
  /\ UNCHANGED <<recordingThread, last, double_counter, stalledPolls, stalled, nonEmptyAtStop>>
  /\ UNCHANGED <<prodVars, takeVars, consVars>>

\* new_recording, lines 228-231: the recording gets its thread, which starts,
\* and sig_new_frame is connected to its write
NewRecordingConnect ==
  /\ kpc = "nr_connect"
  /\ recordingThread' = recording
  /\ running' = running \cup {recording}
  /\ connected' = connected \cup {recording}
  /\ kpc' = "idle"
  /\ UNCHANGED <<mutex, continuous, saving, recframes, dispframe, content, slotEvent,
                 pending, enqueued, enqFor, enqSession, rstate>>
  /\ UNCHANGED <<recording, last, double_counter, stalledPolls, nsessions, stalled, nonEmptyAtStop>>
  /\ UNCHANGED <<prodVars, takeVars, consVars, outVars>>

\* start_saving
StartSaving ==
  /\ kpc = "idle"
  /\ mutex = NoMutex
  /\ saving' = TRUE
  /\ UNCHANGED <<mutex, continuous, recframes, dispframe, content, slotEvent, pending,
                 enqueued, enqFor, enqSession>>
  /\ UNCHANGED <<prodVars, takeVars, ctlVars, recVars, consVars, outVars>>

\* stop_capture
StopCapture ==
  /\ kpc = "idle"
  /\ mutex = NoMutex
  /\ continuous' = "False"
  /\ UNCHANGED <<mutex, saving, recframes, dispframe, content, slotEvent, pending,
                 enqueued, enqFor, enqSession>>
  /\ UNCHANGED <<prodVars, takeVars, ctlVars, recVars, consVars, outVars>>

\* self.recording.get_write_count()
get_write_count(r) == Len(written[r])

\* double_counter = -1
CounterFromZero == StallInit + 1
InitialCounter == StallInit

\* if last == self.recording.get_write_count(): double_counter += 1
Counted(dc, l, c) == IF l = c THEN dc + 1 ELSE dc

\* where stop_saving goes on after the stall is reported: break leaves the loop
ReturnOnStall == "idle"
AfterStall == "ss_summary"

\* stop_saving, lines 268-271, with a recording whose write is connected:
\* saving is cleared and write is disconnected, under the mutex.  Calls of
\* write that are already queued for the recording's thread are either still
\* delivered or dropped: which one depends on how Qt was told about the slot.
StopSavingBegin ==
  /\ kpc = "idle"
  /\ mutex = NoMutex
  /\ recording \in connected
  /\ saving' = FALSE
  /\ connected' = connected \ {recording}
  /\ \E keep \in BOOLEAN :
       pending' = IF keep THEN pending ELSE [pending EXCEPT ![recording] = 0]
  /\ kpc' = "ss_last"
  /\ nonEmptyAtStop' = (Len(recframes) > 0)
  /\ acted' = FALSE
  /\ stalled' = FALSE
  /\ UNCHANGED <<mutex, continuous, recframes, dispframe, content, slotEvent, enqueued,
                 enqFor, enqSession, rstate, running, cpc, hand, written, consumed>>
  /\ UNCHANGED <<recording, recordingThread, last, double_counter, stalledPolls, nsessions>>
  /\ UNCHANGED <<prodVars, takeVars, outVars>>

\* stop_saving, lines 268-270, with self.recording None (no attribute write) or
\* with a recording that was never connected (disconnect raises): the call
\* ends in the exception, after saving was cleared and before mutex.unlock()
StopSavingRaise ==
  /\ kpc = "idle"
  /\ mutex = NoMutex
  /\ recording \notin connected
  /\ saving' = FALSE
  /\ mutex' = "ctl"
  /\ kpc' = "raised"
  /\ UNCHANGED <<continuous, recframes, dispframe, content, slotEvent, pending, enqueued,
                 enqFor, enqSession>>
  /\ UNCHANGED <<recording, recordingThread, last, double_counter, stalledPolls, nsessions,
                 stalled, nonEmptyAtStop>>
  /\ UNCHANGED <<prodVars, takeVars, recVars, consVars, outVars>>

\* stop_saving, lines 273-276
StopSavingLast ==
  /\ kpc = "ss_last"
  /\ last' = get_write_count(recording)
  /\ double_counter' = InitialCounter
  /\ stalledPolls' = 0
  /\ kpc' = "ss_poll"
  /\ UNCHANGED <<mutex, continuous, saving, recframes, dispframe, content, slotEvent,
                 pending, enqueued, enqFor, enqSession>>
  /\ UNCHANGED <<recording, recordingThread, nsessions, stalled, nonEmptyAtStop>>
  /\ UNCHANGED <<prodVars, takeVars, recVars, consVars, outVars>>

\* while self.get_recframesize() > 0: the test that finds the queue empty
StopSavingPoll ==
  /\ kpc = "ss_poll"
  /\ mutex = NoMutex
  /\ Len(recframes) = 0
  /\ kpc' = "ss_summary"
  /\ UNCHANGED <<mutex, continuous, saving, recframes, dispframe, content, slotEvent,
                 pending, enqueued, enqFor, enqSession>>
  /\ UNCHANGED <<recording, recordingThread, last, double_counter, stalledPolls, nsessions,
                 stalled, nonEmptyAtStop>>
  /\ UNCHANGED <<prodVars, takeVars, recVars, consVars, outVars>>

\* One iteration, lines 277-284: the test that finds frames in the queue, the
\* prints, the count and the stall test; the msleep of line 285 follows.  The test and the read
\* of the count are one step: a step of another context between the two
\* either leaves len(recframes) > 0 (a write, an append) and can be moved
\* before the test, or leaves the count (a get_recframe) and can be moved
\* after the read.
StopSavingCompare ==
  /\ kpc = "ss_poll"
  /\ mutex = NoMutex
  /\ Len(recframes) > 0
  /\ LET dc == Counted(double_counter, last, get_write_count(recording))
     IN /\ double_counter' = dc
        /\ IF dc = StallThreshold
             THEN /\ errors' = Append(errors, ErrStall)
                  /\ stalled' = TRUE
                  /\ kpc' = AfterStall
                  /\ stalledPolls' = stalledPolls
             ELSE /\ errors' = errors
                  /\ stalled' = stalled
                  /\ kpc' = "ss_sleep"
                  /\ stalledPolls' = IF dc > double_counter THEN stalledPolls + 1
                                      ELSE stalledPolls
  /\ UNCHANGED <<mutex, continuous, saving, recframes, dispframe, content, slotEvent,
                 pending, enqueued, enqFor, enqSession, summaries>>
  /\ UNCHANGED <<recording, recordingThread, last, nsessions, nonEmptyAtStop>>
  /\ UNCHANGED <<prodVars, takeVars, recVars, consVars>>

\* line 285: QtCore.QThread.msleep(100) is over, back to the test of line 277
StopSavingWake ==
  /\ kpc = "ss_sleep"
  /\ kpc' = "ss_poll"
  /\ UNCHANGED <<mutex, continuous, saving, recframes, dispframe, content, slotEvent,
                 pending, enqueued, enqFor, enqSession>>
  /\ UNCHANGED <<recording, recordingThread, last, double_counter, stalledPolls, nsessions,
                 stalled, nonEmptyAtStop>>
  /\ UNCHANGED <<prodVars, takeVars, recVars, consVars, outVars>>

\* lines 289-292: the summary '{} of {}'.format(write count, triggered_frames)
StopSavingSummary ==
  /\ kpc = "ss_summary"
  /\ summaries' = Append(summaries, <<get_write_count(recording), triggered_frames>>)
  /\ kpc' = "ss_release"
  /\ UNCHANGED <<mutex, continuous, saving, recframes, dispframe, content, slotEvent,
                 pending, enqueued, enqFor, enqSession, errors>>
  /\ UNCHANGED <<recording, recordingThread, last, double_counter, stalledPolls, nsessions,
                 stalled, nonEmptyAtStop>>
  /\ UNCHANGED <<prodVars, takeVars, recVars, consVars>>

\* line 294: self.recording.release()
StopSavingRelease ==
  /\ kpc = "ss_release"
  /\ rstate' = [rstate EXCEPT ![recording] = "released"]
  /\ kpc' = "ss_quit"
  /\ UNCHANGED <<mutex, continuous, saving, recframes, dispframe, content, slotEvent,
                 pending, enqueued, enqFor, enqSession, connected, running>>
  /\ UNCHANGED <<recording, recordingThread, last, double_counter, stalledPolls, nsessions,
                 stalled, nonEmptyAtStop>>
  /\ UNCHANGED <<prodVars, takeVars, consVars, outVars>>

\* lines 295-298: quit() and wait() return once the thread has left the slot
\* it was running, then both handles are set to None
StopSavingQuit ==
  /\ kpc = "ss_quit"
  /\ cpc[recordingThread] = "idle"
  /\ running' = running \ {recordingThread}
  /\ recording' = 0
  /\ recordingThread' = 0
  /\ kpc' = "idle"
  /\ last' = 0 /\ double_counter' = StallInit /\ stalledPolls' = 0
  /\ stalled' = FALSE /\ nonEmptyAtStop' = FALSE /\ acted' = FALSE
  /\ UNCHANGED <<mutex, continuous, saving, recframes, dispframe, content, slotEvent,
                 pending, enqueued, enqFor, enqSession, rstate, connected, nsessions>>
  /\ UNCHANGED <<cpc, hand, written, consumed>>
  /\ UNCHANGED <<prodVars, takeVars, outVars>>

Control == NewRecordingRead \/ NewRecordingClear \/ NewRecordingOpen
             \/ NewRecordingConnect \/ StartSaving \/ StopCapture
             \/ StopSavingBegin \/ StopSavingRaise \/ StopSavingLast
             \/ StopSavingPoll \/ StopSavingCompare \/ StopSavingWake
             \/ StopSavingSummary
             \/ StopSavingRelease \/ StopSavingQuit

\* ------------------------------------------------------------- get_recframe

\* get_recframe: popleft under the mutex, or None
get_recframe(q) == IF Len(q) > 0 THEN <<Head(q), Tail(q)>> ELSE <<NoRec, q>>

\* -------------------------------------------------------------- consumer

\* One queued call of write starts on the recording's thread: it takes the
\* next frame with camera.get_recframe(); with None there is nothing to write.
ConsumerGet(r) ==
  /\ r \in running
  /\ cpc[r] = "idle"
  /\ pending[r] > 0
  /\ mutex = NoMutex
  /\ pending' = [pending EXCEPT ![r] = @ - 1]
  /\ LET g == get_recframe(recframes)
     IN /\ recframes' = g[2]
        /\ hand' = [hand EXCEPT ![r] = g[1]]
        /\ cpc' = [cpc EXCEPT ![r] = IF g[1] = NoRec THEN "idle" ELSE "write"]
        /\ consumed' = IF g[1] = NoRec THEN consumed ELSE Append(consumed, g[1])
  /\ acted' = TRUE
  /\ UNCHANGED <<mutex, continuous, saving, dispframe, content, slotEvent, enqueued,
                 enqFor, enqSession, written>>
  /\ UNCHANGED <<prodVars, takeVars, ctlVars, recVars, outVars>>

\* write hands the frame to the video writer and counts it
ConsumerWrite(r) ==
  /\ cpc[r] = "write"
  /\ written' = [written EXCEPT ![r] = Append(@, hand[r])]
  /\ hand' = [hand EXCEPT ![r] = NoRec]
  /\ cpc' = [cpc EXCEPT ![r] = "idle"]
  /\ acted' = TRUE
  /\ UNCHANGED <<mutex, continuous, saving, recframes, dispframe, content, slotEvent,
                 pending, enqueued, enqFor, enqSession, consumed>>
  /\ UNCHANGED <<prodVars, takeVars, ctlVars, recVars, outVars>>

Consumer == \E r \in Recorders : ConsumerGet(r) \/ ConsumerWrite(r)

Next == Producer \/ Display \/ Control \/ Consumer

Spec == Init /\ [][Next]_vars

\* The recording path alone: the display consumer touches only dispframe.
NextRecord == Producer \/ Control \/ Consumer
SpecRecord == Init /\ [][NextRecord]_vars

\* The display path alone: capture, the display consumer, and the calls of
\* the control that read the slot or change what the capture loop does.
NextDisplay == Producer \/ Display \/ NewRecordingRead \/ NewRecordingClear
                 \/ NewRecordingOpen \/ NewRecordingConnect \/ StartSaving
                 \/ StopCapture
SpecDisplay == Init /\ [][NextDisplay]_vars

\* Every context that can take a step eventually takes one: the capture loop,
\* a call of the control that is under way, and each recording thread.  The
\* control is not obliged to start a call.
ControlRun == NewRecordingClear \/ NewRecordingOpen \/ NewRecordingConnect
                \/ StopSavingLast \/ StopSavingPoll \/ StopSavingCompare
                \/ StopSavingWake
                \/ StopSavingSummary \/ StopSavingRelease \/ StopSavingQuit
FairRecord ==
  /\ SpecRecord
  /\ WF_vars(Producer)
  /\ WF_vars(ControlRun)
  /\ \A r \in Recorders : WF_vars(ConsumerGet(r) \/ ConsumerWrite(r))

\* Capture alone, with stop_capture called only once start_capture has been
\* invoked: the capture loop, the display consumer, start_saving, and that
\* stop_capture.  The capture thread takes a step whenever it can.
StopCaptureRunning == ppc # "idle" /\ StopCapture
NextCapture == Producer \/ Display \/ StartSaving \/ StopCaptureRunning
SpecCapture == Init /\ [][NextCapture]_vars
FairCapture == SpecCapture /\ WF_vars(Producer)

\* ---------------------------------------------------------------- claims

InStop == kpc \in {"ss_last", "ss_poll", "ss_sleep", "ss_summary", "ss_release", "ss_quit"}
InDrain == kpc \in {"ss_poll", "ss_sleep"}
Reported(e) == \E i \in DOMAIN errors : errors[i] = e

\* C1: the frames get_recframe has returned so far, followed by the frames
\* still in recframes, are exactly the frames grab_frame appended, in the
\* order of their capture, each of them once.
C1_QueueIsFifo ==
  /\ consumed \o recframes = enqueued
  /\ \A i, j \in DOMAIN enqueued : i < j => enqueued[i].frame < enqueued[j].frame

C1_Witness == Len(consumed) >= 1 /\ Len(recframes) >= 1

\* C2: at the moment stop_saving releases the recording without having
\* declared a stall, the recording's write count equals the number of frames
\* that were appended to recframes for it.
C2_NoFrameLost ==
  [][(kpc = "ss_release" /\ kpc' = "ss_quit" /\ ~stalled)
       => Len(written'[recording]) = enqFor'[recording]]_vars

\* C3: a stop_saving that has entered its polling loop eventually leaves it.
C3_DrainTerminates == [](InDrain => <>(~InDrain))

C5_StopReleases ==
  [][(InStop /\ kpc' = "idle")
       => /\ rstate'[recording] = "released"
          /\ recording \notin running'
          /\ recording' = 0 /\ recordingThread' = 0]_vars

C5_Witness ==
  /\ kpc = "idle" /\ recording = 0
  /\ \E r \in Recorders : rstate[r] = "released"
  /\ Reported(ErrStall)

C7_SingleSlot ==
  /\ dispframe = NoDisp
       \/ (dispframe.frame \in 1..nframes /\ DOMAIN dispframe = {"frame", "dtime", "fr"})
  /\ slotEvent # "publish" => dispframe = NoDisp
  /\ \A t \in Takers : (taking[t] /\ eventAtRead[t] # "publish") => taken[t] = NoDisp

C7_Witness ==
  /\ taking["disp"] /\ eventAtRead["disp"] = "take" /\ taken["disp"] = NoDisp
  /\ nframes = 1 /\ ppc = "is_saving" /\ dispframe = NoDisp

\* C8: when get_dispframe sets dispframe to None, the slot holds the value
\* this call read, or None: never a value published after the read.
C8_TakeIsAtomic ==
  [][\A t \in Takers : (taking[t] /\ ~taking'[t]) => dispframe \in {NoDisp, taken[t]}]_vars

\* C9: an iteration of grab_frame whose camera read fails leaves what the
\* display slot and the queue hold (pixels and data) and the queued
\* notifications as they were, and goes back to the test of the loop.
C9_FailedReadChangesNothing ==
  [][(ppc = "read" /\ ppc' # "read" /\ nframes' = nframes)
       => /\ SlotValue' = SlotValue
          /\ QueueValue' = QueueValue
          /\ pending' = pending
          /\ ppc' = "loop"]_vars

\* C10: the rate grab_frame computes is 0 for a window of fewer than 2 samples
\* or of elapsed time 0, and (n - 1) / elapsed for a window of n samples.
C10_RateIsReference ==
  LET n == Len(frame_dts)
      elapsed == IF n = 0 THEN 0 ELSE frame_dts[n] - frame_dts[1]
  IN IF n < 2 \/ elapsed = 0
       THEN pfr[1] = 0
       ELSE pfr[1] * elapsed = (n - 1) * pfr[2]

\* C11: a call of stop_capture made when continuous is already False, and a
\* call of stop_saving made when no recording is open (self.recording is None
\* or did not open), return normally and leave continuous, saving, dispframe,
\* recframes, the recording handle and the mutex as they were.
NoSessionOpen == recording = 0 \/ rstate[recording] # "open"
C11_StopIsIdempotent ==
  [][/\ (continuous = "False" /\ StopCapture)
          => /\ kpc' = "idle"
             /\ UNCHANGED <<continuous, saving, dispframe, recframes, recording, mutex>>
     /\ (NoSessionOpen /\ (StopSavingBegin \/ StopSavingRaise))
          => /\ kpc' = "idle"
             /\ UNCHANGED <<continuous, saving, dispframe, recframes, recording, mutex>>]_vars

\* C12: every step that appends a frame to recframes starts in a state where
\* saving is set.
C12_AppendOnlyWhileSaving == [][Len(recframes') > Len(recframes) => saving]_vars

\* C13: the state of the session is Idle (no recorder open), Active (recorder
\* open and saving set), Draining (saving cleared with the recorder still
\* open) or Closed (recorder released); a step either leaves it or moves it
\* along Idle -> Active -> Draining -> Closed.
SessionState ==
  IF recording = 0 \/ rstate[recording] \in {"unborn", "failed"} THEN "Idle"
  ELSE IF rstate[recording] = "released" THEN "Closed"
  ELSE IF saving THEN "Active"
  ELSE "Draining"
SessionEdges == {<<"Idle", "Active">>, <<"Active", "Draining">>, <<"Draining", "Closed">>}
C13_SessionIsMonotonic ==
  [][SessionState' = SessionState \/ <<SessionState, SessionState'>> \in SessionEdges]_vars

\* C14: when the drain ends without a stall and every frame enqueued for the
\* session has been written, the summary stop_saving emits is 'n of n': the
\* write count, and the number of frames enqueued for the session.
C14_SummaryCountsExpected ==
  [][(kpc = "ss_summary" /\ kpc' = "ss_release" /\ ~stalled
        /\ get_write_count(recording) = enqFor[recording])
       => summaries'[Len(summaries')] = <<get_write_count(recording), enqFor[recording]>>]_vars

\* C15: every iteration of the drain loop (recframes not empty) compares the
\* write count with the value it had at the previous poll, kept in last: the
\* counter becomes double_counter + 1 when they are equal and 0 when they
\* differ, and last becomes the count of this poll.
C15_StallCounterResets ==
  [][(kpc = "ss_poll" /\ Len(recframes) > 0 /\ kpc' # "ss_poll")
       => LET c == get_write_count(recording)
          IN /\ double_counter' = IF c = last THEN double_counter + 1 ELSE 0
             /\ last' = c]_vars

\* C16: when a call of stop_saving whose drain broke on a stall returns,
\* recframes is empty.
C16_StallDiscardsQueue ==
  [][(kpc = "ss_quit" /\ stalled /\ kpc' = "idle") => recframes' = <<>>]_vars

\* C17: dispframe, recframes, saving and continuous are written only by a
\* thread that holds the mutex: while one context holds it, no step of
\* another context changes any of them.
C17_SharedStateUnderMutex ==
  [][mutex # NoMutex => UNCHANGED <<dispframe, recframes, saving, continuous>>]_vars

\* C18: once stop_capture has been called after start_capture was invoked, an
\* iteration in flight completes and no further iteration is started (when no
\* iteration is in flight, none ever is again), and start_capture returns.
InFlight == ppc \in {"read", "publish", "is_saving", "append", "emit"}
StopAsked == ppc # "idle" /\ continuous = "False"
C18_StopEndsCapture ==
  /\ []((StopAsked /\ ~InFlight) => [](~InFlight))
  /\ (StopAsked ~> ppc = "done")

\* C19: every frame a recorder has written was appended while that recorder
\* was self.recording, and when new_recording connects a recorder, recframes
\* holds no frame appended under an earlier recorder or under none.
SessionOf(x) == enqSession[CHOOSE i \in DOMAIN enqueued : enqueued[i] = x]
C19_NoLeakBetweenSessions ==
  /\ [](\A r \in Recorders : \A i \in DOMAIN written[r] : SessionOf(written[r][i]) = r)
  /\ [][(kpc = "nr_connect" /\ kpc' = "idle")
          => \A i \in DOMAIN recframes : SessionOf(recframes[i]) = recording]_vars

\* C20: every operation that locks the mutex unlocks it before it ends, by
\* return or by exception: no context is ever left holding it.
C20_MutexReleased == mutex = NoMutex

====
